---- MODULE Spec2Model ----
(***************************************************************************)
(* Model of src/src/deck.js: the Deck class of node-cards.                 *)
(*                                                                         *)
(* A Deck keeps, in the module-private map `props`, a Set of its cards     *)
(* (`cards`) and three arrays (`deck`, `held`, `discard`).  Every Card has *)
(* a field `deck` naming its owner.  The model has two Deck objects and a  *)
(* small universe of Card objects; every public method is one action,      *)
(* except merge, whose forEach loop is one action per callback invocation  *)
(* because the loop need not terminate.                                    *)
(***************************************************************************)
EXTENDS Integers, Sequences, FiniteSets

\* ------------------------------------------------------------- bounds ----
\* Number of array entries (over the three piles of the Deck) that add and
\* the constructor may build up in the one-Deck specification SpecDeck.
MaxPile == 3
\* The same limit, over the piles of both Decks, in the two-Deck
\* specification Spec.
MaxShared == 2
\* Draw counts range over -1 .. MaxCount.
MaxCount == 2

\* ------------------------------------------------------- the universe ----
Cards == {"A", "B", "C"}
\* the Cards the two Decks of Spec pass between them
SharedCards == {"A", "B"}
Decks == {"D1", "D2"}
\* card.deck = null
null == "null"
\* deck.js:15
piles == {"deck", "discard", "held"}
\* the pile names a caller may pass: the three known ones and an unknown one
PileArgs == piles \cup {"bogus"}
Counts == (0 - 1) .. MaxCount

VARIABLES
    props,      \* props[d]: the private record of Deck d (cards, deck, held, discard)
    cardDeck,   \* cardDeck[c]: the field `deck` of Card c
    pc,         \* "idle", or "merge" while a merge call is inside its forEach
    frame,      \* the running (or last finished) merge call
    last        \* the last call: method, arguments, returned value, error

vars == <<props, cardDeck, pc, frame, last>>

\* ------------------------------------------------ JavaScript helpers ----
Min(a, b) == IF a < b THEN a ELSE b
Max(a, b) == IF a > b THEN a ELSE b

Range(s) == {s[i] : i \in 1 .. Len(s)}

\* Array.prototype.indexOf: zero-based index of the first occurrence, or -1
indexOf(array, value) ==
    IF value \in Range(array)
    THEN (CHOOSE i \in 1 .. Len(array) :
             array[i] = value /\ \A j \in 1 .. (i - 1) : array[j] # value) - 1
    ELSE 0 - 1

\* Array.prototype.splice(start, deleteCount) for start >= 0: the removed
\* elements and what is left of the array
splice(array, start, deleteCount) ==
    LET s == Min(start, Len(array))
        k == Max(0, Min(deleteCount, Len(array) - s))
    IN  [removed |-> SubSeq(array, s + 1, s + k),
         rest    |-> SubSeq(array, 1, s) \o SubSeq(array, s + k + 1, Len(array))]

\* Array.prototype.reverse
reverse(array) == [i \in 1 .. Len(array) |-> array[Len(array) + 1 - i]]

\* A Set is kept as the sequence of its members in insertion order
\* (the order forEach visits them in).
SetAdd(set, value) == IF value \in Range(set) THEN set ELSE Append(set, value)
SetDelete(set, value) == SelectSeq(set, LAMBDA x : x # value)
RECURSIVE NewSet(_)
NewSet(array) ==
    IF array = <<>> THEN <<>>
    ELSE SetAdd(NewSet(SubSeq(array, 1, Len(array) - 1)), array[Len(array)])

\* deck.js:404-410, the array helper remove(array, value)
remove(array, value) ==
    LET index == indexOf(array, value)
    IN  IF index >= 0 THEN splice(array, index, 1).rest ELSE array

\* rand.js shuffle(array): any permutation of the array may come out
RECURSIVE Permutations(_)
Permutations(array) ==
    IF array = <<>> THEN {<<>>}
    ELSE UNION {{<<array[i]>> \o rest : rest \in Permutations(splice(array, i - 1, 1).rest)} :
                   i \in 1 .. Len(array)}

\* ------------------------------------------------------ call records ----
NoCall == [op |-> "new", this |-> null, card |-> "none", pile |-> "none",
           count |-> 0, ret |-> <<>>, err |-> "none"]

Call(op, this, card, pile, count, ret, err) ==
    [op |-> op, this |-> this, card |-> card, pile |-> pile,
     count |-> count, ret |-> ret, err |-> err]

NoFrame == [this |-> null, other |-> null, pile |-> "none",
            snapshot |-> <<>>, visited |-> <<>>,
            pre |-> [d \in Decks |-> [cards |-> <<>>, deck |-> <<>>,
                                      held |-> <<>>, discard |-> <<>>]]]

\* number of array entries in the three piles of one Deck record
Entries(p) == Len(p.deck) + Len(p.held) + Len(p.discard)
TotalEntries == Entries(props["D1"]) + Entries(props["D2"])

\* ------------------------------------------------------- constructor ----
\* deck.js:22-28, the record the constructor stores in props
Constructor(cards) ==
    [cards |-> NewSet(cards), deck |-> cards, held |-> <<>>, discard |-> <<>>]

SeqsUpTo(universe, n) == UNION {[1 .. k -> universe] : k \in 0 .. n}

\* D1 = new Deck(c1), then D2 = new Deck(c2); deck.js:31-33 sets card.deck
Constructed(c1, c2) ==
    /\ props = [d \in Decks |-> IF d = "D1" THEN Constructor(c1) ELSE Constructor(c2)]
    /\ cardDeck = [c \in Cards |->
                      IF c \in Range(c2) THEN "D2"
                      ELSE IF c \in Range(c1) THEN "D1" ELSE null]
    /\ pc = "idle"
    /\ frame = NoFrame
    /\ last = NoCall

Init ==
    \E c1 \in SeqsUpTo(SharedCards, MaxShared) :
        \E c2 \in SeqsUpTo(SharedCards, MaxShared - Len(c1)) : Constructed(c1, c2)

\* one Deck built from any sequence of Cards, beside an empty one
InitDeck == \E c1 \in SeqsUpTo(Cards, MaxPile) : Constructed(c1, <<>>)

\* --------------------------------------------------------- accessors ----
\* deck.js:40-42
totalLength(this) == Len(props[this].cards)
\* deck.js:48-50
remainingLength(this) == Len(props[this].deck)
\* deck.js:56-58
getHeld(this) == props[this].discard
\* deck.js:64-66
getDiscarded(this) == props[this].discard

\* ------------------------------------------------------ add / remove ----
\* deck.js:80-85, what add does to the Deck's record once the pile is known
addCard(p, card, pile) ==
    [p EXCEPT !.cards = SetAdd(@, card), ![pile] = Append(@, card)]

\* remove without cards.delete(card)
removeCard_keepMember(p, card) ==
    [cards   |-> p.cards,
     deck    |-> remove(p.deck, card),
     discard |-> remove(p.discard, card),
     held    |-> remove(p.held, card)]

\* deck.js:95-100, what remove does to the Deck's record
removeCard(p, card) ==
    [cards   |-> SetDelete(p.cards, card),
     deck    |-> remove(p.deck, card),
     discard |-> remove(p.discard, card),
     held    |-> remove(p.held, card)]

\* deck.js:75-86
Add(this, card, pile) ==
    /\ pc = "idle"
    /\ IF pile \notin piles
       THEN /\ UNCHANGED <<props, cardDeck>>
            /\ last' = Call("add", this, card, pile, 0, <<>>, "InvalidPile")
       ELSE /\ props' = [props EXCEPT ![this] = addCard(@, card, pile)]
            /\ cardDeck' = [cardDeck EXCEPT ![card] = this]
            /\ last' = Call("add", this, card, pile, 0, <<>>, "none")
    /\ frame' = NoFrame
    /\ UNCHANGED pc

\* deck.js:94-103
Remove(this, card) ==
    /\ pc = "idle"
    /\ props' = [props EXCEPT ![this] = removeCard(@, card)]
    /\ cardDeck' = [cardDeck EXCEPT ![card] = null]
    /\ last' = Call("remove", this, card, "none", 0, <<>>, "none")
    /\ frame' = NoFrame
    /\ UNCHANGED pc

\* ------------------------------------------------------------- merge ----
\* deck.js:112-115: merge(deck, pile) takes the other Deck's live Set and
\* starts forEach over it.
Merge(this, other, pile) ==
    /\ pc = "idle"
    /\ pc' = "merge"
    /\ frame' = [this |-> this, other |-> other, pile |-> pile,
                 snapshot |-> props[other].cards, visited |-> <<>>,
                 pre |-> props]
    /\ last' = Call("merge", this, "none", pile, 0, <<>>, "running")
    /\ UNCHANGED <<props, cardDeck>>

\* The cards the forEach callback has been invoked with, recorded up to one
\* more than the Set held when merge was called.
Visit(visited, card) ==
    IF Len(visited) > Len(frame.snapshot) THEN visited ELSE Append(visited, card)

\* deck.js:115-118, one invocation of the forEach callback.  Set.forEach
\* walks the live Set in insertion order; the callback deletes the entry it
\* is visiting, so the next entry to visit is always the first member left,
\* and a member added during the walk is visited too.
MergeStep ==
    /\ pc = "merge"
    /\ props[frame.other].cards # <<>>
    /\ LET card == Head(props[frame.other].cards)
           removed == [props EXCEPT ![frame.other] = removeCard(@, card)]
       IN  /\ frame' = [frame EXCEPT !.visited = Visit(@, card)]
           /\ IF frame.pile \notin piles
              THEN \* this.add throws after deck.remove has run
                   /\ props' = removed
                   /\ cardDeck' = [cardDeck EXCEPT ![card] = null]
                   /\ pc' = "idle"
                   /\ last' = [last EXCEPT !.err = "InvalidPile"]
              ELSE /\ props' = [removed EXCEPT ![frame.this] = addCard(@, card, frame.pile)]
                   /\ cardDeck' = [cardDeck EXCEPT ![card] = frame.this]
                   /\ UNCHANGED <<pc, last>>

\* deck.js:119: forEach has no entry left to visit and merge returns
MergeReturn ==
    /\ pc = "merge"
    /\ props[frame.other].cards = <<>>
    /\ pc' = "idle"
    /\ last' = [last EXCEPT !.err = "none"]
    /\ UNCHANGED <<props, cardDeck, frame>>

\* ------------------------------------------------------- draw family ----
\* The outcome of a method on one Deck record: the record afterwards, the
\* returned array and the error thrown ("none" when it returns).
Outcome(p, ret, err) == [p |-> p, ret |-> ret, err |-> err]

\* draw pushing the drawn cards onto the discard array, as drawToDiscard does
draw_toDiscard(p, count) ==
    IF Len(p.deck) = 0 THEN Outcome(p, <<>>, "EmptyDeck")
    ELSE IF count < 0 THEN Outcome(p, <<>>, "none")
    ELSE LET s == splice(p.deck, 0, count)
         IN  Outcome([p EXCEPT !.deck = s.rest, !.discard = @ \o s.removed],
                     s.removed, "none")

\* deck.js:127-143
draw(p, count) ==
    IF Len(p.deck) = 0 THEN Outcome(p, <<>>, "EmptyDeck")
    ELSE IF count < 0 THEN Outcome(p, <<>>, "none")
    ELSE LET s == splice(p.deck, 0, count)
         IN  Outcome([p EXCEPT !.deck = s.rest, !.held = @ \o s.removed],
                     s.removed, "none")

\* drawFromBottom without the reverse() of the spliced cards
drawFromBottom_noReverse(p, count) ==
    IF Len(p.deck) = 0 THEN Outcome(p, <<>>, "EmptyDeck")
    ELSE IF count < 0 THEN Outcome(p, <<>>, "none")
    ELSE LET start == Max(Len(p.deck) - count, 0)
             s == splice(p.deck, start, count)
         IN  Outcome([p EXCEPT !.deck = s.rest, !.held = @ \o s.removed],
                     s.removed, "none")

\* deck.js:152-169
drawFromBottom(p, count) ==
    IF Len(p.deck) = 0 THEN Outcome(p, <<>>, "EmptyDeck")
    ELSE IF count < 0 THEN Outcome(p, <<>>, "none")
    ELSE LET start == Max(Len(p.deck) - count, 0)
             s == splice(p.deck, start, count)
             cards == reverse(s.removed)
         IN  Outcome([p EXCEPT !.deck = s.rest, !.held = @ \o cards], cards, "none")

\* drawToDiscard pushing the drawn cards onto the held array, as draw does
drawToDiscard_toHeld(p, count) ==
    IF Len(p.deck) = 0 THEN Outcome(p, <<>>, "EmptyDeck")
    ELSE IF count < 0 THEN Outcome(p, <<>>, "none")
    ELSE LET s == splice(p.deck, 0, count)
         IN  Outcome([p EXCEPT !.deck = s.rest, !.held = @ \o s.removed],
                     s.removed, "none")

\* deck.js:177-193
drawToDiscard(p, count) ==
    IF Len(p.deck) = 0 THEN Outcome(p, <<>>, "EmptyDeck")
    ELSE IF count < 0 THEN Outcome(p, <<>>, "none")
    ELSE LET s == splice(p.deck, 0, count)
         IN  Outcome([p EXCEPT !.deck = s.rest, !.discard = @ \o s.removed],
                     s.removed, "none")

\* drawToDiscardFromBottom testing the count before the emptiness of the deck
drawToDiscardFromBottom_countFirst(p, count) ==
    IF count < 0 THEN Outcome(p, <<>>, "none")
    ELSE IF Len(p.deck) = 0 THEN Outcome(p, <<>>, "EmptyDeck")
    ELSE LET start == Max(Len(p.deck) - count, 0)
             s == splice(p.deck, start, count)
             cards == reverse(s.removed)
         IN  Outcome([p EXCEPT !.deck = s.rest, !.discard = @ \o cards], cards, "none")

\* deck.js:202-219
drawToDiscardFromBottom(p, count) ==
    IF Len(p.deck) = 0 THEN Outcome(p, <<>>, "EmptyDeck")
    ELSE IF count < 0 THEN Outcome(p, <<>>, "none")
    ELSE LET start == Max(Len(p.deck) - count, 0)
             s == splice(p.deck, start, count)
             cards == reverse(s.removed)
         IN  Outcome([p EXCEPT !.deck = s.rest, !.discard = @ \o cards], cards, "none")

\* A call of a method that touches only the record of `this`
Apply(op, this, card, count, out) ==
    /\ pc = "idle"
    /\ props' = [props EXCEPT ![this] = out.p]
    /\ last' = Call(op, this, card, "none", count, out.ret, out.err)
    /\ frame' = NoFrame
    /\ UNCHANGED <<cardDeck, pc>>

Draw(this, count) == Apply("draw", this, "none", count, draw(props[this], count))
DrawFromBottom(this, count) ==
    Apply("drawFromBottom", this, "none", count, drawFromBottom(props[this], count))
DrawToDiscard(this, count) ==
    Apply("drawToDiscard", this, "none", count, drawToDiscard(props[this], count))
DrawToDiscardFromBottom(this, count) ==
    Apply("drawToDiscardFromBottom", this, "none", count,
          drawToDiscardFromBottom(props[this], count))

\* ----------------------------------------------------------- discard ----
\* discard without the test cards.has(card)
discard_noMemberTest(p, card) ==
    LET deckIndex == indexOf(p.deck, card)
        heldIndex == indexOf(p.held, card)
    IN  IF deckIndex >= 0
        THEN Outcome([p EXCEPT !.deck = splice(@, deckIndex, 1).rest,
                               !.discard = Append(@, card)], <<>>, "none")
        ELSE IF heldIndex >= 0
        THEN Outcome([p EXCEPT !.held = splice(@, heldIndex, 1).rest,
                               !.discard = Append(@, card)], <<>>, "none")
        ELSE Outcome(p, <<>>, "none")

\* deck.js:227-257, for a single Card argument
discard(p, card) ==
    IF card \notin Range(p.cards) THEN Outcome(p, <<>>, "NotMember")
    ELSE LET deckIndex == indexOf(p.deck, card)
             heldIndex == indexOf(p.held, card)
         IN  IF deckIndex >= 0
             THEN Outcome([p EXCEPT !.deck = splice(@, deckIndex, 1).rest,
                                    !.discard = Append(@, card)], <<>>, "none")
             ELSE IF heldIndex >= 0
             THEN Outcome([p EXCEPT !.held = splice(@, heldIndex, 1).rest,
                                    !.discard = Append(@, card)], <<>>, "none")
             ELSE Outcome(p, <<>>, "none")

Discard(this, card) == Apply("discard", this, card, 0, discard(props[this], card))

\* -------------------------------------------------------- locateCard ----
\* deck.js:279-283, 289-293, 299-303: the descriptor locateCard returns
Descriptor(pile, index, card) == [pile |-> pile, index |-> index, card |-> card]

\* locateCard naming the held pile for a card found in the discard pile
locateCard_discardAsHeld(p, card) ==
    IF card \notin Range(p.cards) THEN Outcome(p, <<>>, "NotMember")
    ELSE LET deckIndex == indexOf(p.deck, card)
             heldIndex == indexOf(p.held, card)
             discardIndex == indexOf(p.discard, card)
         IN  IF deckIndex >= 0
             THEN Outcome(p, <<[pile |-> "deck", index |-> deckIndex, card |-> card]>>, "none")
             ELSE IF heldIndex >= 0
             THEN Outcome(p, <<[pile |-> "held", index |-> heldIndex, card |-> card]>>, "none")
             ELSE IF discardIndex >= 0
             THEN Outcome(p, <<[pile |-> "held", index |-> discardIndex, card |-> card]>>, "none")
             ELSE Outcome(p, <<>>, "Internal")

\* deck.js:265-308, for a Card argument.  "Internal" is the final error
\* 'Failed to find the given card'.
locateCard(p, card) ==
    IF card \notin Range(p.cards) THEN Outcome(p, <<>>, "NotMember")
    ELSE LET deckIndex == indexOf(p.deck, card)
             heldIndex == indexOf(p.held, card)
             discardIndex == indexOf(p.discard, card)
         IN  IF deckIndex >= 0
             THEN Outcome(p, <<Descriptor("deck", deckIndex, card)>>, "none")
             ELSE IF heldIndex >= 0
             THEN Outcome(p, <<Descriptor("held", heldIndex, card)>>, "none")
             ELSE IF discardIndex >= 0
             THEN Outcome(p, <<Descriptor("discard", discardIndex, card)>>, "none")
             ELSE Outcome(p, <<>>, "Internal")

LocateCard(this, card) ==
    Apply("locateCard", this, card, 0, locateCard(props[this], card))

\* --------------------------------------------------------- findCards ----
\* deck.js:389-399; the filter function is given by the set of Cards it
\* returns true for
findCards(p, accepted) ==
    Outcome(p, SelectSeq(p.cards, LAMBDA c : c \in accepted), "none")

\* the filters (card) => card === c, one for every Card c, and () => true
Filters(universe) == {{c} : c \in universe} \cup {Cards}
\* the Card a filter looks for, "any" for () => true
Sought(accepted) == IF accepted = Cards THEN "any" ELSE CHOOSE c \in accepted : TRUE

FindCards(this, accepted) ==
    Apply("findCards", this, Sought(accepted), 0, findCards(props[this], accepted))

\* ---------------------------------------------------------- shuffles ----
\* shuffleAll without discard.length = 0
ShuffleAll_keepDiscard(this) ==
    \E shuffled \in Permutations(props[this].deck \o props[this].held \o props[this].discard) :
        Apply("shuffleAll", this, "none", 0,
              Outcome([props[this] EXCEPT !.deck = shuffled, !.held = <<>>], <<>>, "none"))

\* deck.js:315-325
ShuffleAll(this) ==
    \E shuffled \in Permutations(props[this].deck \o props[this].held \o props[this].discard) :
        Apply("shuffleAll", this, "none", 0,
              Outcome([props[this] EXCEPT !.deck = shuffled, !.held = <<>>,
                                          !.discard = <<>>], <<>>, "none"))

\* deck.js:332-334
ShuffleRemaining(this) ==
    \E shuffled \in Permutations(props[this].deck) :
        Apply("shuffleRemaining", this, "none", 0,
              Outcome([props[this] EXCEPT !.deck = shuffled], <<>>, "none"))

\* shuffleDiscard shuffling the deck after the push, as shuffleDeckAndDiscard does
ShuffleDiscard_wholeDeck(this) ==
    \E shuffled \in Permutations(props[this].deck \o props[this].discard) :
        Apply("shuffleDiscard", this, "none", 0,
              Outcome([props[this] EXCEPT !.deck = shuffled, !.discard = <<>>],
                      <<>>, "none"))

\* deck.js:341-349
ShuffleDiscard(this) ==
    \E shuffled \in Permutations(props[this].discard) :
        Apply("shuffleDiscard", this, "none", 0,
              Outcome([props[this] EXCEPT !.deck = @ \o shuffled, !.discard = <<>>],
                      <<>>, "none"))

\* deck.js:356-364
ShuffleDeckAndDiscard(this) ==
    \E shuffled \in Permutations(props[this].deck \o props[this].discard) :
        Apply("shuffleDeckAndDiscard", this, "none", 0,
              Outcome([props[this] EXCEPT !.deck = shuffled, !.discard = <<>>],
                      <<>>, "none"))

\* discardAllHeld without held.length = 0
DiscardAllHeld_keepHeld(this) ==
    Apply("discardAllHeld", this, "none", 0,
          Outcome([props[this] EXCEPT !.discard = @ \o props[this].held], <<>>, "none"))

\* deck.js:371-377
DiscardAllHeld(this) ==
    Apply("discardAllHeld", this, "none", 0,
          Outcome([props[this] EXCEPT !.discard = @ \o props[this].held, !.held = <<>>],
                  <<>>, "none"))

\* ------------------------------------------------------ specification ----
\* The calls that move Cards between the piles of one Deck
Relocate(this) ==
    \/ \E count \in Counts : Draw(this, count)
    \/ \E count \in Counts : DrawFromBottom(this, count)
    \/ \E count \in Counts : DrawToDiscard(this, count)
    \/ \E count \in Counts : DrawToDiscardFromBottom(this, count)
    \/ ShuffleAll(this)
    \/ ShuffleRemaining(this)
    \/ ShuffleDiscard(this)
    \/ ShuffleDeckAndDiscard(this)
    \/ DiscardAllHeld(this)

\* Two Decks and the Cards they share: every method on either Deck
Next ==
    \/ \E this \in Decks, card \in SharedCards, pile \in PileArgs :
          /\ pile \in piles => TotalEntries < MaxShared
          /\ Add(this, card, pile)
    \/ \E this \in Decks, card \in SharedCards : Remove(this, card)
    \/ \E this \in Decks, other \in Decks, pile \in PileArgs : Merge(this, other, pile)
    \/ MergeStep
    \/ MergeReturn
    \/ \E this \in Decks, card \in SharedCards : Discard(this, card)
    \/ \E this \in Decks : Relocate(this)
    \/ \E this \in Decks, card \in SharedCards : LocateCard(this, card)
    \/ \E this \in Decks, accepted \in Filters(SharedCards) : FindCards(this, accepted)

Spec == Init /\ [][Next]_vars

\* One Deck on its own
NextDeck ==
    \/ \E card \in Cards, pile \in PileArgs :
          /\ pile \in piles => TotalEntries < MaxPile
          /\ Add("D1", card, pile)
    \/ \E card \in Cards : Remove("D1", card)
    \/ \E card \in Cards : Discard("D1", card)
    \/ Relocate("D1")
    \/ \E card \in Cards : LocateCard("D1", card)
    \/ \E accepted \in Filters(Cards) : FindCards("D1", accepted)

SpecDeck == InitDeck /\ [][NextDeck]_vars

\* ------------------------------------------------------------ claims ----
\* how often a value occurs in an array
Occurs(array, value) == Len(SelectSeq(array, LAMBDA x : x = value))

\* Every member of p.cards occurs exactly once over the three piles, and the
\* piles hold as many entries as p.cards has members.
OnePilePerCard(p) ==
    /\ \A c \in Range(p.cards) :
          Occurs(p.deck, c) + Occurs(p.held, c) + Occurs(p.discard, c) = 1
    /\ Entries(p) = Len(p.cards)

\* C1: between calls, every card of allCards occurs exactly once over
\* drawPile, heldPile and discardPile of its Deck, and the three piles
\* together hold |allCards| = totalLength entries.
C1_OnePilePerCard ==
    pc = "idle" =>
        \A d \in Decks : OnePilePerCard(props[d]) /\ Entries(props[d]) = totalLength(d)

\* C2: between calls, a card's back-reference is the one Deck whose allCards
\* holds it, and is unset when no Deck's allCards holds it.
C2_BackReference ==
    pc = "idle" =>
        \A c \in Cards :
            /\ \A d \in Decks : c \in Range(props[d].cards) => cardDeck[c] = d
            /\ (\A d \in Decks : c \notin Range(props[d].cards)) => cardDeck[c] = null

\* C3: the accessor held returns heldPile and the accessor discarded returns
\* discardPile.
C3_Accessors ==
    \A d \in Decks : getHeld(d) = props[d].held /\ getDiscarded(d) = props[d].discard

\* C4: draw(n) with n >= 0 on a non-empty drawPile d returns the first
\* min(n, |d|) cards of d in order, leaves the rest of d as drawPile, appends
\* the returned cards to heldPile, leaves discardPile and allCards alone and
\* lowers remainingLength by min(n, |d|).
C4_DrawStep ==
    (last'.op = "draw" /\ last'.count >= 0 /\ props[last'.this].deck # <<>>) =>
        LET this == last'.this
            d == props[this].deck
            k == Min(last'.count, Len(d))
        IN  /\ last'.err = "none"
            /\ last'.ret = SubSeq(d, 1, k)
            /\ props'[this].deck = SubSeq(d, k + 1, Len(d))
            /\ props'[this].held = props[this].held \o last'.ret
            /\ props'[this].discard = props[this].discard
            /\ props'[this].cards = props[this].cards
            /\ Len(props'[this].deck) = remainingLength(this) - k
C4_Draw == [][C4_DrawStep]_vars

\* the scenario of the specification: [A,B,C], draw(2) returns [A,B]
C4_Witness ==
    /\ last.op = "draw" /\ last.this = "D1" /\ last.count = 2
    /\ last.ret = <<"A", "B">>
    /\ props["D1"].deck = <<"C">>
    /\ props["D1"].held = <<"A", "B">>

\* C5: drawFromBottom(n) with n >= 0 on a non-empty drawPile d removes the
\* last min(n, |d|) cards of d, returns them last card first, appends them in
\* that order to heldPile and leaves the prefix of d as drawPile.
C5_DrawFromBottomStep ==
    (last'.op = "drawFromBottom" /\ last'.count >= 0 /\ props[last'.this].deck # <<>>) =>
        LET this == last'.this
            d == props[this].deck
            k == Min(last'.count, Len(d))
        IN  /\ last'.err = "none"
            /\ Len(last'.ret) = k
            /\ \A i \in 1 .. k : last'.ret[i] = d[Len(d) + 1 - i]
            /\ props'[this].deck = SubSeq(d, 1, Len(d) - k)
            /\ props'[this].held = props[this].held \o last'.ret
C5_DrawFromBottom == [][C5_DrawFromBottomStep]_vars

\* [A,B,C], draw(1), then drawFromBottom(2) returns [C,B]
C5_Witness ==
    /\ last.op = "drawFromBottom" /\ last.this = "D1" /\ last.count = 2
    /\ last.ret = <<"C", "B">>
    /\ props["D1"].deck = <<>>
    /\ props["D1"].held = <<"A", "C", "B">>

DrawOps == {"draw", "drawFromBottom", "drawToDiscard", "drawToDiscardFromBottom"}

\* C6: each of the four draw methods, called on an empty drawPile, fails with
\* EmptyDeckError whatever the count and changes no pile and not allCards.
C6_EmptyDeckStep ==
    (last'.op \in DrawOps /\ props[last'.this].deck = <<>>) =>
        /\ last'.err = "EmptyDeck"
        /\ props' = props
C6_EmptyDeck == [][C6_EmptyDeckStep]_vars

\* a negative count on an empty drawPile, with cards held
C6_Witness ==
    /\ last.op = "drawToDiscardFromBottom" /\ last.count < 0
    /\ last.err = "EmptyDeck"
    /\ props[last.this].deck = <<>>
    /\ props[last.this].held # <<>>

\* the merge call has returned, and `frame` still describes it
Merged == pc = "idle" /\ last.op = "merge" /\ last.err = "none"

\* C7: after this.merge(otherDeck, p) with two distinct Decks that each had
\* every member exactly once over its piles, and a known pile p: otherDeck
\* has no members and three empty piles; pile p of this is what it was,
\* followed by the former members of otherDeck in insertion order; the other
\* two piles of this are as before; this.totalLength grew by the former
\* otherDeck.totalLength; every moved card's back-reference is this.
C7_Merge ==
    (/\ Merged
     /\ frame.this # frame.other
     /\ frame.pile \in piles
     /\ OnePilePerCard(frame.pre[frame.this])
     /\ OnePilePerCard(frame.pre[frame.other])) =>
        LET this == frame.this
            other == frame.other
            moved == frame.pre[other].cards
        IN  /\ props[other] = Constructor(<<>>)
            /\ totalLength(other) = 0
            /\ props[this][frame.pile] = frame.pre[this][frame.pile] \o moved
            /\ \A q \in piles \ {frame.pile} : props[this][q] = frame.pre[this][q]
            /\ totalLength(this) = Len(frame.pre[this].cards) + Len(moved)
            /\ \A c \in Range(moved) : cardDeck[c] = this

\* C8: merge invokes its callback on exactly the cards that were in
\* otherDeck.allCards when it was called, each once and in that order, and
\* then returns, also when otherDeck is this Deck itself.
C8_MergeSnapshot ==
    (pc = "merge" \/ last.op = "merge") =>
        /\ Len(frame.visited) <= Len(frame.snapshot)
        /\ frame.visited = SubSeq(frame.snapshot, 1, Len(frame.visited))
        /\ Merged => frame.visited = frame.snapshot

\* C9: add and merge called with a pile name outside the fixed set fail with
\* InvalidPileError, whatever the card and whatever the other Deck holds.
C9_InvalidPile ==
    (pc = "idle" /\ last.op \in {"add", "merge"} /\ last.pile \notin piles) =>
        last.err = "InvalidPile"

\* the array without the first occurrence of the value
WithoutFirst(array, value) ==
    LET i == CHOOSE j \in 1 .. Len(array) :
                 array[j] = value /\ \A h \in 1 .. (j - 1) : array[h] # value
    IN  SubSeq(array, 1, i - 1) \o SubSeq(array, i + 1, Len(array))

\* C10: discard(card) of a member card: a card in drawPile or heldPile leaves
\* that pile (the other cards keeping their order) and is appended to
\* discardPile; a card already in discardPile changes no pile; allCards is
\* unchanged and the card is in discardPile afterwards.
C10_DiscardStep ==
    (last'.op = "discard" /\ last'.card \in Range(props[last'.this].cards)) =>
        LET this == last'.this
            card == last'.card
            p == props[this]
            q == props'[this]
        IN  /\ last'.err = "none"
            /\ (card \in Range(p.deck) \/ card \in Range(p.held)) =>
                  /\ q.discard = Append(p.discard, card)
                  /\ \/ /\ card \in Range(p.deck)
                        /\ q.deck = WithoutFirst(p.deck, card)
                        /\ q.held = p.held
                     \/ /\ card \in Range(p.held)
                        /\ q.held = WithoutFirst(p.held, card)
                        /\ q.deck = p.deck
            /\ card \in Range(p.discard) => q = p
            /\ q.cards = p.cards
            /\ card \in Range(q.discard)
C10_Discard == [][C10_DiscardStep]_vars

\* C11: discard(card) and locateCard(card) with a card that is not in this
\* Deck's allCards fail with NotMemberError and leave every pile, allCards
\* and every back-reference as they were.
C11_NotMemberStep ==
    (/\ last'.op \in {"discard", "locateCard"}
     /\ last'.card \notin Range(props[last'.this].cards)) =>
        /\ last'.err = "NotMember"
        /\ last'.ret = <<>>
        /\ props' = props
        /\ cardDeck' = cardDeck
C11_NotMember == [][C11_NotMemberStep]_vars

\* discard of a card that the other Deck owns
C11_Witness ==
    /\ last.op = "discard" /\ last.err = "NotMember"
    /\ last.card \notin Range(props[last.this].cards)
    /\ \E other \in Decks \ {last.this} :
          /\ last.card \in Range(props[other].cards)
          /\ cardDeck[last.card] = other

\* C12: for every member card of either Deck, locateCard returns a descriptor
\* {pile, index, card} whose pile is one of the three piles and holds the
\* card at the zero-based position index.
C12_LocateCard ==
    \A d \in Decks : \A c \in Range(props[d].cards) :
        LET out == locateCard(props[d], c)
        IN  /\ out.err = "none"
            /\ Len(out.ret) = 1
            /\ out.ret[1].card = c
            /\ out.ret[1].pile \in piles
            /\ out.ret[1].index >= 0
            /\ out.ret[1].index < Len(props[d][out.ret[1].pile])
            /\ props[d][out.ret[1].pile][out.ret[1].index + 1] = c
            /\ out.p = props[d]

\* add(A, 'discard') on an empty Deck, then locateCard(A)
C12_Witness ==
    /\ last.op = "locateCard" /\ last.err = "none" /\ last.card = "A"
    /\ last.ret = <<Descriptor("discard", 0, "A")>>
    /\ props[last.this] = [cards |-> <<"A">>, deck |-> <<>>, held |-> <<>>,
                           discard |-> <<"A">>]

\* C13: after remove(card) of a member card the card is not in allCards,
\* occurs in none of the three piles, has no back-reference, totalLength is
\* one less, and findCards with a filter matching only that card returns
\* the empty sequence.
C13_RemoveStep ==
    (last'.op = "remove" /\ last'.card \in Range(props[last'.this].cards)) =>
        LET this == last'.this
            card == last'.card
            q == props'[this]
        IN  /\ last'.err = "none"
            /\ card \notin Range(q.cards)
            /\ card \notin Range(q.deck)
            /\ card \notin Range(q.held)
            /\ card \notin Range(q.discard)
            /\ cardDeck'[card] = null
            /\ Len(q.cards) = totalLength(this) - 1
            /\ findCards(q, {card}).ret = <<>>
C13_Remove == [][C13_RemoveStep]_vars

\* C16: a second remove(card) right after remove(card) changes neither
\* allCards, nor a pile, nor the back-reference; remove of a card that is not
\* in allCards raises no error and changes neither allCards nor a pile.
C16_RemoveAgainStep ==
    /\ (/\ last.op = "remove" /\ last'.op = "remove"
        /\ last'.this = last.this /\ last'.card = last.card) =>
           (props' = props /\ cardDeck' = cardDeck)
    /\ (last'.op = "remove" /\ last'.card \notin Range(props[last'.this].cards)) =>
           (last'.err = "none" /\ props'[last'.this] = props[last'.this])
C16_RemoveIdempotent == [][C16_RemoveAgainStep]_vars

\* the two arrays hold the same cards, each as often in one as in the other
SameCards(a, b) ==
    /\ Len(a) = Len(b)
    /\ \A c \in Range(b) : Occurs(a, c) = Occurs(b, c)

\* C14: shuffleAll leaves heldPile and discardPile empty, drawPile a
\* permutation of the former drawPile ++ heldPile ++ discardPile, and
\* allCards and totalLength as they were; a shuffleRemaining that follows
\* keeps all of that.
C14_ShuffleAllStep ==
    /\ last'.op = "shuffleAll" =>
          LET p == props[last'.this]
              q == props'[last'.this]
          IN  /\ last'.err = "none"
              /\ q.held = <<>>
              /\ q.discard = <<>>
              /\ SameCards(q.deck, p.deck \o p.held \o p.discard)
              /\ Len(q.deck) = Entries(p)
              /\ q.cards = p.cards
    /\ (last.op = "shuffleAll" /\ last'.op = "shuffleRemaining"
                               /\ last'.this = last.this) =>
          LET p == props[last'.this]
              q == props'[last'.this]
          IN  /\ last'.err = "none"
              /\ q.held = <<>>
              /\ q.discard = <<>>
              /\ SameCards(q.deck, p.deck)
              /\ Len(q.deck) = Entries(p)
              /\ q.cards = p.cards
C14_ShuffleAll == [][C14_ShuffleAllStep]_vars

\* shuffleAll has left the three member cards in the draw pile, reordered
C14_Witness ==
    /\ last.op = "shuffleAll"
    /\ props["D1"].deck = <<"C", "A", "B">>
    /\ props["D1"].held = <<>>
    /\ props["D1"].discard = <<>>
    /\ props["D1"].cards = <<"A", "B", "C">>

\* C15: shuffleDiscard keeps the former drawPile as a prefix of the new one,
\* followed by a permutation of the former discardPile; shuffleDeckAndDiscard
\* makes drawPile a permutation of the former drawPile ++ discardPile; both
\* empty discardPile and leave heldPile alone.
C15_ShuffleDiscardStep ==
    /\ last'.op = "shuffleDiscard" =>
          LET p == props[last'.this]
              q == props'[last'.this]
          IN  /\ Len(q.deck) = Len(p.deck) + Len(p.discard)
              /\ SubSeq(q.deck, 1, Len(p.deck)) = p.deck
              /\ SameCards(SubSeq(q.deck, Len(p.deck) + 1, Len(q.deck)), p.discard)
              /\ q.discard = <<>>
              /\ q.held = p.held
    /\ last'.op = "shuffleDeckAndDiscard" =>
          LET p == props[last'.this]
              q == props'[last'.this]
          IN  /\ Len(q.deck) = Len(p.deck) + Len(p.discard)
              /\ SameCards(q.deck, p.deck \o p.discard)
              /\ q.discard = <<>>
              /\ q.held = p.held
C15_ShuffleDiscard == [][C15_ShuffleDiscardStep]_vars

\* shuffleDiscard has returned with all three cards in the draw pile, B and C
\* in the reverse of their insertion order, and an empty discard pile
C15_Witness ==
    /\ last.op = "shuffleDiscard"
    /\ props["D1"].cards = <<"A", "B", "C">>
    /\ props["D1"].deck = <<"A", "C", "B">>
    /\ props["D1"].discard = <<>>

\* C17: drawToDiscard(n) and drawToDiscardFromBottom(n) take from drawPile
\* and return what draw(n) and drawFromBottom(n) would in the same state, but
\* append it to discardPile and leave heldPile alone; and on a non-empty
\* drawPile each of the four draw methods with a negative count returns the
\* empty sequence and changes no pile.
C17_DrawToDiscardStep ==
    /\ last'.op = "drawToDiscard" =>
          LET p == props[last'.this]
              q == props'[last'.this]
              ref == draw(p, last'.count)
          IN  /\ last'.ret = ref.ret
              /\ last'.err = ref.err
              /\ q.deck = ref.p.deck
              /\ q.discard = p.discard \o last'.ret
              /\ q.held = p.held
    /\ last'.op = "drawToDiscardFromBottom" =>
          LET p == props[last'.this]
              q == props'[last'.this]
              ref == drawFromBottom(p, last'.count)
          IN  /\ last'.ret = ref.ret
              /\ last'.err = ref.err
              /\ q.deck = ref.p.deck
              /\ q.discard = p.discard \o last'.ret
              /\ q.held = p.held
    /\ (last'.op \in DrawOps /\ last'.count < 0 /\ props[last'.this].deck # <<>>) =>
          /\ last'.ret = <<>>
          /\ last'.err = "none"
          /\ props' = props
C17_DrawToDiscard == [][C17_DrawToDiscardStep]_vars

\* drawToDiscardFromBottom(2) has moved C and B, in that order, to the
\* discard pile, behind the card already there
C17_Witness ==
    /\ last.op = "drawToDiscardFromBottom" /\ last.count = 2
    /\ last.ret = <<"C", "B">>
    /\ props["D1"].deck = <<>>
    /\ props["D1"].held = <<>>
    /\ props["D1"].discard = <<"A", "C", "B">>

\* C18: in every state either Deck can be in, locateCard of a member card
\* does not end in the error 'Failed to find the given card': the card is in
\* one of the three piles.
C18_MemberIsFound ==
    \A d \in Decks : \A c \in Range(props[d].cards) :
        /\ locateCard(props[d], c).err # "Internal"
        /\ c \in Range(props[d].deck) \cup Range(props[d].held) \cup Range(props[d].discard)

\* locateCard has found, in the held pile of D2, a card that merge moved
\* there from D1
C18_Witness ==
    /\ last.op = "locateCard" /\ last.this = "D2" /\ last.err = "none"
    /\ last.ret = <<Descriptor("held", 1, "B")>>
    /\ props["D2"].held = <<"A", "B">>
    /\ props["D1"] = Constructor(<<>>)

\* C19: a call that fails leaves the state as it was: add with an unknown
\* pile changes no back-reference, allCards or pile, and merge failing with
\* InvalidPileError has removed no card, unset no back-reference and added
\* no card.
C19_FailedCallStep ==
    /\ (last'.op = "add" /\ last'.err # "none") =>
          (props' = props /\ cardDeck' = cardDeck)
    /\ (pc = "merge" /\ pc' = "idle" /\ last'.err = "InvalidPile") =>
          (props' = frame.pre /\ cardDeck' = cardDeck)
C19_FailedCall == [][C19_FailedCallStep]_vars

RelocateOps ==
    DrawOps \cup {"discard", "discardAllHeld", "shuffleAll", "shuffleRemaining",
                  "shuffleDiscard", "shuffleDeckAndDiscard"}
QueryOps == {"locateCard", "findCards"}
AllPiles(p) == p.deck \o p.held \o p.discard

\* C20: the relocating methods and the queries change neither allCards (so
\* not totalLength) nor a back-reference, and keep the multiset of cards
\* over the three piles (no other Deck is touched at all); every step is a
\* step of add, remove or merge or else of one of these methods, so only the
\* former change membership; the queries change nothing; discardAllHeld leaves
\* drawPile alone, empties heldPile and appends the former heldPile to
\* discardPile.
C20_FrameStep ==
    IF last'.op \in {"add", "remove", "merge"} THEN TRUE
    ELSE /\ last'.op \in RelocateOps \cup QueryOps
         /\ cardDeck' = cardDeck
         /\ \/ props' = props
            \/ /\ last'.op \in RelocateOps
               /\ \A d \in Decks : props'[d].cards = props[d].cards
               /\ \A d \in Decks : Len(props'[d].cards) = totalLength(d)
               /\ \A d \in Decks \ {last'.this} : props'[d] = props[d]
               /\ LET now == AllPiles(props'[last'.this])
                      before == AllPiles(props[last'.this])
                  IN  SameCards(now, before)
         /\ last'.op = "discardAllHeld" =>
               LET p == props[last'.this]
                   q == props'[last'.this]
               IN  /\ q.deck = p.deck
                   /\ q.held = <<>>
                   /\ q.discard = p.discard \o p.held
C20_Frame == [][C20_FrameStep]_vars

\* discardAllHeld has put the held A and B on the discard pile of their Deck
C20_Witness ==
    /\ last.op = "discardAllHeld"
    /\ props[last.this].held = <<>>
    /\ props[last.this].discard = <<"A", "B">>
    /\ props[last.this].cards = <<"A", "B">>
    /\ cardDeck["A"] = last.this /\ cardDeck["B"] = last.this

====
